---- MODULE Spec2Model ----
(***************************************************************************)
(* buckle: a launcher that resolves a buck2 release, installs it into a    *)
(* local cache directory and runs it.  The model follows src/src/main.rs:  *)
(* every invocation of the binary is a process that walks through main,    *)
(* get_buck2_dir, download_http and get_releases; the cache directory is   *)
(* a map from paths to files shared by all invocations; the clock, the     *)
(* network and process kills are the environment.                          *)
(***************************************************************************)
EXTENDS Integers, Sequences, FiniteSets, TLC

VARIABLES
    now,        \* SystemTime::now() in seconds
    ticks,      \* number of clock advances so far
    platform,   \* <<env::consts::ARCH, env::consts::OS>> of the build
    files,      \* the cache directory: path -> file, for the files present
    dirs,       \* the directories present under the cache directory
    invocations,\* number of invocations of the launcher started so far
    proc,       \* per invocation slot: the locals of the running invocation:
                \*   pc        position in the code
                \*   phase     "main": get_buck2_dir called by main; "verify": called
                \*             by get_expected_prelude_hash
                \*   ver       read_buck2_version()
                \*   inv       ordinal of the invocation (names its temporary file)
                \*   resp      response body in hand, from its receipt on
                \*   rels      the release list get_releases returned (its body's id)
                \*   err       the error the invocation ended with
                \*   had       the final paths present when this call of download_http began
                \*   hit       binary_path.exists() as this call of download_http found it
                \*   fetched   what this call of download_http requested from the network
                \*   wrote     paths this call of download_http created, wrote or renamed onto
                \*   installed the invocation renamed a file onto a final path
                \*   child     exit status of the child process, once spawned
                \*   exit      exit code of the launcher, -1 while it runs
    call        \* one call of a function of main.rs taken on its own: the function,
                \* its arguments and, once it has returned, its result

vars == <<now, ticks, platform, files, dirs, invocations, proc, call>>

(***************************************************************************)
(* Bounds of the model.                                                    *)
(***************************************************************************)
MaxInvocations == 2     \* invocations of the launcher in one behaviour
MaxTicks == 1           \* clock advances in one behaviour
ArtChunks == 2          \* write calls copy_decode needs for one artifact

(***************************************************************************)
(* Program constants.                                                      *)
(***************************************************************************)
TTL == 3600             \* 60 * 60, get_releases
TmpMode == 384          \* 0o600, the mode NamedTempFile creates with
BinMode == 493          \* 0o755, download_http
DefaultMode == 420      \* 0o644, the mode File::create creates with
BUCK_RELEASE_URL == "https://github.com/facebook/buck2/tags"
BASE_URL == "https://github.com/facebook/buck2/releases/download"

Procs == {1, 2}
Versions == {"latest", "v1", "v2"}
Platforms == {<<"x86_64", "linux">>, <<"aarch64", "windows">>, <<"mips", "linux">>}
ClockSteps == {TTL - 1, TTL, TTL + 1}

None == "none"

(***************************************************************************)
(* Paths are sequences of components below the cache directory             *)
(* <cache>/buckle/buck2, which is the empty path.                          *)
(***************************************************************************)
Root == <<>>
Push(path, component) == Append(path, component)
ReleasesJson == Push(Root, "releases.json")
BinaryPath(dir_path) == Push(dir_path, "buck2")
PreludePath(dir_path) == Push(dir_path, "prelude_hash")
\* the artifact written in place, without a temporary file
TmpPathInPlace(dir_path, i) == Push(dir_path, "buck2")
TmpPath(dir_path, i) == Push(dir_path, ".tmp" \o ToString(i))
\* Path::exists and Metadata::is_file
Exists(path) == path \in DOMAIN files \/ path \in dirs
IsFile(path) == path \in DOMAIN files
IsPrefix(d, path) == Len(d) <= Len(path) /\ SubSeq(path, 1, Len(d)) = d

\* A file: its bytes (a sequence of chunks), its permission bits and, for
\* releases.json only, its modification time (no other mtime is ever read).
File(data, mode, mtime) == [data |-> data, mode |-> mode, mtime |-> mtime]

\* write_all at offset 0 of a file that holds `old`: bytes beyond the written
\* ones stay (another writer's, written after this writer's truncation)
Overlay(old, new) == new \o SubSeq(old, Len(new) + 1, Len(old))

Put(fs, path, file) == [q \in DOMAIN fs \cup {path} |-> IF q = path THEN file ELSE fs[q]]
Remove(fs, path) == [q \in DOMAIN fs \ {path} |-> fs[q]]

\* mode & 0o111 != 0, on the modes that occur
IsExecMode(mode) == \E bit \in {1, 8, 64} : (mode \div bit) % 2 = 1

(***************************************************************************)
(* get_arch                                                                *)
(***************************************************************************)
Ok(v) == [ok |-> TRUE, val |-> v]
Err(e) == [ok |-> FALSE, err |-> e]

\* the table without its OS column: every OS taken for linux
get_arch_any_os(arch, os) ==
    IF arch \in {"x86_64", "aarch64"} THEN Ok(arch \o "-unknown-linux-gnu")
    ELSE Err([kind |-> "Unsupported Architecture", arch |-> arch, os |-> None])

get_arch(arch, os) ==
    CASE arch = "x86_64" ->
           (CASE os = "linux" -> Ok("x86_64-unknown-linux-gnu")
              [] os \in {"darwin", "macos"} -> Ok("x86_64-apple-darwin")
              [] os = "windows" -> Ok("x86_64-pc-windows-msvc")
              [] OTHER -> Err([kind |-> "Unsupported Arch/OS", arch |-> "x86_64", os |-> os]))
      [] arch = "aarch64" ->
           (CASE os = "linux" -> Ok("aarch64-unknown-linux-gnu")
              [] os \in {"darwin", "macos"} -> Ok("aarch64-apple-darwin")
              [] OTHER -> Err([kind |-> "Unsupported Arch/OS", arch |-> "aarch64", os |-> os]))
      [] OTHER -> Err([kind |-> "Unsupported Architecture", arch |-> arch, os |-> None])

ArtifactName(target) == "buck2-" \o target \o ".zst"

(***************************************************************************)
(* Releases as the GitHub API lists them, and the bodies the release       *)
(* listing endpoint answers with.                                          *)
(***************************************************************************)
Asset(name, url) == [name |-> name, browser_download_url |-> url]
Release(name, tag, commitish, assets) ==
    [name |-> name, tag_name |-> tag, target_commitish |-> commitish, assets |-> assets]

LinuxAsset == "buck2-x86_64-unknown-linux-gnu.zst"
MacAsset == "buck2-x86_64-apple-darwin.zst"

\* "latest" is tagged latest and cut from main; the release named v1 carries
\* another tag; v2 is tagged v2 and cut from main as well.
ListA == << Release("latest", "latest", "main", <<Asset(MacAsset, "latestA-mac"), Asset(LinuxAsset, "latestA")>>),
            Release("v1", "release-v1", "c1", <<Asset(LinuxAsset, "v1")>>),
            Release("v2", "v2", "main", <<Asset(MacAsset, "v2-mac"), Asset(LinuxAsset, "v2")>>) >>
\* a later listing: latest has moved, v1 has lost its linux build, v2 is gone
ListB == << Release("latest", "latest", "main", <<Asset(LinuxAsset, "latestB")>>),
            Release("v1", "release-v1", "c1", <<Asset(MacAsset, "v1-mac")>>) >>

\* the bytes of a response body, as chunks; "X" is not JSON
Bodies == {"A", "B", "X"}
BytesOf(body) ==
    CASE body = "A" -> <<"A1", "A2">>
      [] body = "B" -> <<"B1">>
      [] body = "X" -> <<"X1">>

\* serde_json::from_str::<Vec<Release>>
ParseReleases(data) ==
    CASE data = BytesOf("A") -> Ok("A")
      [] data = BytesOf("B") -> Ok("B")
      [] OTHER -> Err([kind |-> "parse", of |-> None])

ReleasesOf(id) == IF id = "A" THEN ListA ELSE IF id = "B" THEN ListB ELSE <<>>

Hashes == {"h1"}
\* what zstd decodes the asset at a url to
Decoded(url) == [i \in 1..ArtChunks |-> url \o "#" \o ToString(i)]
Urls == {"latestA", "latestA-mac", "latestB", "v1", "v1-mac", "v2-mac", "v2"}
IsComplete(file) == \E u \in Urls : file.data = Decoded(u)

(***************************************************************************)
(* download_http, lines 165-190: the scan of the release list.             *)
(***************************************************************************)
NoAsset == Asset(None, None)

\* the asset loop without its break: the last asset of that name is kept
LastAsset(assets, i, wanted) ==
    LET S == {j \in i..Len(assets) : assets[j].name = wanted}
    IN IF S = {} THEN NoAsset ELSE assets[CHOOSE j \in S : \A k \in S : k <= j]

RECURSIVE FirstAsset(_, _, _)
\* for asset in release.assets { if name == wanted { ...; break } }
FirstAsset(assets, i, wanted) ==
    IF i > Len(assets) THEN NoAsset
    ELSE IF assets[i].name = wanted THEN assets[i]
    ELSE FirstAsset(assets, i + 1, wanted)

RECURSIVE ScanReleasesAnyName(_, _, _, _, _, _)
\* the scan without the test of the release's name
ScanReleasesAnyName(releases, i, version, wanted, dir_path, artifact) ==
    IF i > Len(releases) THEN [dir_path |-> dir_path, artifact |-> artifact]
    ELSE LET release == releases[i]
             found == FirstAsset(release.assets, 1, wanted)
         IN ScanReleasesAnyName(releases, i + 1, version, wanted,
                                IF release.tag_name = version
                                THEN Push(dir_path, release.target_commitish)
                                ELSE dir_path,
                                IF found # NoAsset THEN found ELSE artifact)

RECURSIVE ScanReleases(_, _, _, _, _, _)
\* for release in releases { ... }: dir_path and artifact are the loop's state
ScanReleases(releases, i, version, wanted, dir_path, artifact) ==
    IF i > Len(releases) THEN [dir_path |-> dir_path, artifact |-> artifact]
    ELSE LET release == releases[i]
             found == FirstAsset(release.assets, 1, wanted)
         IN IF release.name = version
            THEN ScanReleases(releases, i + 1, version, wanted,
                              IF release.tag_name = version
                              THEN Push(dir_path, release.target_commitish)
                              ELSE dir_path,
                              IF found # NoAsset THEN found ELSE artifact)
            ELSE ScanReleases(releases, i + 1, version, wanted, dir_path, artifact)

Match(version, releases, target) ==
    ScanReleases(releases, 1, version, ArtifactName(target), Root, NoAsset)

NotAvailable(version) ==
    [kind |-> "not available", version |-> version, url |-> BUCK_RELEASE_URL]

(***************************************************************************)
(* The invocations.                                                        *)
(***************************************************************************)
IsBinaryPath(path) == Len(path) > 0 /\ path[Len(path)] = "buck2"
BinaryPaths(fs) == {path \in DOMAIN fs : IsBinaryPath(path)}

NoErr == [kind |-> None]
NoChild == [spawned |-> FALSE, success |-> FALSE, code |-> -1]
ChildStatuses == { [spawned |-> TRUE, success |-> TRUE, code |-> 0],
                   [spawned |-> TRUE, success |-> FALSE, code |-> 2],
                   [spawned |-> TRUE, success |-> FALSE, code |-> -1] }  \* killed by a signal: no code

Idle == [pc |-> "idle", phase |-> "main", ver |-> None, inv |-> 0, resp |-> None,
         rels |-> None, err |-> NoErr, had |-> {}, hit |-> FALSE, fetched |-> {}, wrote |-> {},
         installed |-> FALSE, child |-> NoChild, exit |-> -1]

Terminal == {"done", "failed", "killed"}
Running(p) == proc[p].pc \notin Terminal \cup {"idle"}

Upd(p, r) == proc' = [proc EXCEPT ![p] = r]

\* main returns Err (exit code 1); an unwrap or expect that panics exits with 101
Failed(r, e) == [r EXCEPT !.pc = "failed", !.err = e, !.resp = None,
                          !.exit = IF e.kind = "panic" THEN 101 ELSE 1]

\* inside get_expected_prelude_hash every error of get_buck2_dir is unwrapped
Raise(r, e) == Failed(r, IF r.phase = "verify" THEN [kind |-> "panic", cause |-> e] ELSE e)

Target == get_arch(platform[1], platform[2])
Resolved(r) == Match(r.ver, ReleasesOf(r.rels), Target.val)
DirPath(p) == Resolved(proc[p]).dir_path
Prefixes(path) == {SubSeq(path, 1, n) : n \in 0..Len(path)}

\* download_http returns Ok(dir_path) to get_buck2_dir, which returns it to
\* main or to get_expected_prelude_hash
Returned(r) == [r EXCEPT !.pc = IF r.phase = "main" THEN "main_check" ELSE "read_hash"]

\* main -> get_buck2_dir: get_buckle_dir, create_dir_all, read_buck2_version
Start(p) ==
    /\ proc[p].pc \in Terminal \cup {"idle"}
    /\ \A q \in Procs : proc[q].pc = "idle" => p <= q    \* the slots are interchangeable
    /\ invocations < MaxInvocations
    /\ invocations' = invocations + 1
    /\ \E v \in Versions, env_ok \in BOOLEAN :
         LET r == [Idle EXCEPT !.ver = v, !.inv = invocations + 1, !.had = BinaryPaths(files)] IN
         IF env_ok
         THEN /\ dirs' = dirs \cup {Root}
              /\ Upd(p, [r EXCEPT !.pc = "get_releases"])
         ELSE /\ dirs' = dirs
              /\ Upd(p, Failed(r, [kind |-> "env"]))
    /\ UNCHANGED <<call, now, ticks, platform, files>>

Abs(x) == IF x < 0 THEN -x ELSE x

\* the snapshot still counted fresh when exactly one hour old
IsFreshInclusive(mtime, curr_time) == Abs(curr_time - mtime) <= TTL
\* get_releases, line 127
IsFresh(mtime, curr_time) == Abs(curr_time - mtime) < TTL

\* get_releases, lines 115-131: the snapshot, when present and fresh, is read and parsed
GetReleases(p) ==
    /\ proc[p].pc = "get_releases"
    /\ IF Exists(ReleasesJson) /\ IsFresh(files[ReleasesJson].mtime, now)
       THEN LET parsed == ParseReleases(files[ReleasesJson].data) IN
            IF parsed.ok
            THEN Upd(p, [proc[p] EXCEPT !.pc = "resolve", !.rels = parsed.val])
            ELSE Upd(p, Raise(proc[p], [parsed.err EXCEPT !.of = "releases.json"]))
       ELSE Upd(p, [proc[p] EXCEPT !.pc = "fetch"])
    /\ UNCHANGED <<call, now, ticks, platform, files, dirs, invocations>>

\* get_releases, lines 133-140: the request, then File::create truncates releases.json
Fetch(p) ==
    /\ proc[p].pc = "fetch"
    /\ \E answer \in Bodies \cup {None} :
         IF answer = None
         THEN /\ Upd(p, Raise(proc[p], [kind |-> "network"]))
              /\ files' = files
         ELSE /\ Upd(p, [proc[p] EXCEPT !.pc = "write_releases", !.resp = answer,
                                         !.fetched = @ \cup {"releases"},
                                         !.wrote = @ \cup {ReleasesJson}])
              /\ files' = Put(files, ReleasesJson, File(<<>>, DefaultMode, now))
    /\ UNCHANGED <<call, now, ticks, platform, dirs, invocations>>

\* get_releases, lines 141-143: write_all, flush, then serde_json::from_str of the text
WriteReleases(p) ==
    /\ proc[p].pc = "write_releases"
    /\ LET text == BytesOf(proc[p].resp)
           old == files[ReleasesJson]
           parsed == ParseReleases(text)
       IN /\ files' = Put(files, ReleasesJson, File(Overlay(old.data, text), old.mode, now))
          /\ IF parsed.ok
             THEN Upd(p, [proc[p] EXCEPT !.pc = "resolve", !.rels = parsed.val])
             ELSE Upd(p, Raise(proc[p], [parsed.err EXCEPT !.of = "response"]))
    /\ UNCHANGED <<call, now, ticks, platform, dirs, invocations>>

\* the presence check made on the install directory instead of the binary
AlreadyInstalledDir(dir_path) == Exists(dir_path)
\* download_http, lines 192-193: binary_path.exists()
AlreadyInstalled(dir_path) == Exists(BinaryPath(dir_path))

\* download_http, lines 165-196: get_arch, the scan, and the presence check
Resolve(p) ==
    /\ proc[p].pc = "resolve"
    /\ LET r == proc[p]
           m == Resolved(r)
       IN IF ~Target.ok THEN Upd(p, Raise(r, Target.err))
          ELSE IF m.artifact = NoAsset THEN Upd(p, Raise(r, NotAvailable(r.ver)))
          ELSE IF AlreadyInstalled(m.dir_path)
               THEN Upd(p, Returned([r EXCEPT !.hit = Exists(BinaryPath(m.dir_path))]))
               ELSE Upd(p, [r EXCEPT !.pc = "create_prelude", !.hit = Exists(BinaryPath(m.dir_path))])
    /\ UNCHANGED <<call, now, ticks, platform, files, dirs, invocations>>

\* download_http, lines 199-206: create_dir_all, the prelude_hash request,
\* then File::create truncates prelude_hash
CreatePrelude(p) ==
    /\ proc[p].pc = "create_prelude"
    /\ dirs' = dirs \cup Prefixes(DirPath(p))
    /\ \E answer \in Hashes \cup {None} :
         LET r == [proc[p] EXCEPT !.wrote = @ \cup (Prefixes(DirPath(p)) \ dirs)] IN
         IF answer = None
         THEN /\ Upd(p, Raise(r, [kind |-> "network"]))
              /\ files' = files
         ELSE /\ Upd(p, [r EXCEPT !.pc = "write_prelude", !.resp = answer,
                                   !.fetched = @ \cup {"prelude_hash"},
                                   !.wrote = @ \cup {PreludePath(DirPath(p))}])
              /\ files' = Put(files, PreludePath(DirPath(p)), File(<<>>, DefaultMode, 0))
    /\ UNCHANGED <<call, now, ticks, platform, invocations>>

\* download_http, lines 207-208: write_all and flush of the prelude hash
WritePrelude(p) ==
    /\ proc[p].pc = "write_prelude"
    /\ LET path == PreludePath(DirPath(p))
           old == files[path]
       IN files' = Put(files, path, File(Overlay(old.data, <<proc[p].resp>>), old.mode, 0))
    /\ Upd(p, [proc[p] EXCEPT !.pc = "create_tmp"])
    /\ UNCHANGED <<call, now, ticks, platform, dirs, invocations>>

MyTmp(p) == TmpPath(DirPath(p), proc[p].inv)

\* download_http, lines 212-214: NamedTempFile::new_in, then the artifact
\* request; when it fails the temporary file is dropped, which removes it
CreateTmp(p) ==
    /\ proc[p].pc = "create_tmp"
    /\ \E answered \in BOOLEAN :
         IF answered
         THEN /\ files' = Put(files, MyTmp(p), File(<<>>, TmpMode, 0))
              /\ Upd(p, [proc[p] EXCEPT !.pc = "decode", !.fetched = @ \cup {"artifact"},
                                         !.wrote = @ \cup {MyTmp(p)}])
         ELSE /\ files' = files
              /\ Upd(p, Raise(proc[p], [kind |-> "network"]))
    /\ UNCHANGED <<call, now, ticks, platform, dirs, invocations>>

\* copy_decode returning after the first chunk
DecodeDoneEarly(n) == n >= 1
\* copy_decode returns once the whole stream is decoded
DecodeDone(n) == n = ArtChunks

\* download_http, lines 215-216: copy_decode writes the decoded bytes chunk by
\* chunk into the temporary file, or fails on a body that is not zstd
Decode(p) ==
    /\ proc[p].pc = "decode"
    /\ LET tmp == files[MyTmp(p)]
           n == Len(tmp.data)
           bytes == Decoded(Resolved(proc[p]).artifact.browser_download_url)
       IN \E decodes \in BOOLEAN :
            IF decodes
            THEN /\ files' = Put(files, MyTmp(p), File(Append(tmp.data, bytes[n + 1]), tmp.mode, 0))
                 /\ Upd(p, [proc[p] EXCEPT !.pc = IF DecodeDone(n + 1) THEN "chmod" ELSE "decode"])
            ELSE /\ files' = Remove(files, MyTmp(p))
                 /\ Upd(p, Raise(proc[p], [kind |-> "decode"]))
    /\ UNCHANGED <<call, now, ticks, platform, dirs, invocations>>

\* download_http, lines 217-222: set_permissions(0o755) on the temporary file
Chmod(p) ==
    /\ proc[p].pc = "chmod"
    /\ files' = Put(files, MyTmp(p), [files[MyTmp(p)] EXCEPT !.mode = BinMode])
    /\ Upd(p, [proc[p] EXCEPT !.pc = "rename"])
    /\ UNCHANGED <<call, now, ticks, platform, dirs, invocations>>

\* fs::rename(from, to): `to` is replaced by `from` in one step
RenameFile(fs, from, to) == Put(Remove(fs, from), to, fs[from])

\* download_http, lines 224-227: the rename onto the final path, and Ok(dir_path)
Rename(p) ==
    /\ proc[p].pc = "rename"
    /\ files' = RenameFile(files, MyTmp(p), BinaryPath(DirPath(p)))
    /\ Upd(p, Returned([proc[p] EXCEPT !.wrote = @ \cup {BinaryPath(DirPath(p))},
                                        !.installed = TRUE]))
    /\ UNCHANGED <<call, now, ticks, platform, dirs, invocations>>

\* the permission bits left unchecked
is_exec_any_mode(path) == IsFile(path)
\* main, line 327: metadata.is_file() && permissions.mode() & 0o111 != 0
is_exec(path) == IsFile(path) /\ IsExecMode(files[path].mode)

\* main, lines 314-334: the final path must exist, be a file and be executable

MainCheck(p) ==
    /\ proc[p].pc = "main_check"
    /\ LET buck2_path == BinaryPath(DirPath(p)) IN
       IF ~Exists(buck2_path) THEN Upd(p, Failed(proc[p], [kind |-> "corrupted"]))
       ELSE IF ~is_exec(buck2_path) THEN Upd(p, Failed(proc[p], [kind |-> "corrupted"]))
       ELSE Upd(p, [proc[p] EXCEPT !.pc = "verify"])
    /\ UNCHANGED <<call, now, ticks, platform, files, dirs, invocations>>

\* main, lines 336-353, and verify_prelude, lines 274-292: the environment
\* decides whether the check is skipped (BUCKLE_PRELUDE_CHECK=NO, no project
\* root, no .buckconfig entry, no git repository, no submodule, no id),
\* panics (a bare repository, a prelude outside the repository) or goes on
\* to get_expected_prelude_hash, which calls get_buck2_dir again
PreludeChecks == {"skip", "panic", "compare"}

Verify(p) ==
    /\ proc[p].pc = "verify"
    /\ \E check \in PreludeChecks :
         CASE check = "skip" -> Upd(p, [proc[p] EXCEPT !.pc = "spawn"])
           [] check = "panic" -> Upd(p, Failed(proc[p], [kind |-> "panic", cause |-> [kind |-> "expect"]]))
           [] check = "compare" -> Upd(p, [proc[p] EXCEPT !.pc = "get_releases", !.phase = "verify", !.resp = None,
                                                       !.rels = None, !.had = BinaryPaths(files), !.hit = FALSE,
                                                       !.fetched = {}, !.wrote = {}])
    /\ UNCHANGED <<call, now, ticks, platform, files, dirs, invocations>>

\* get_expected_prelude_hash, lines 233-244, and verify_prelude, lines 293-296:
\* File::open(..).unwrap(), the read, and the comparison that only warns
ReadHash(p) ==
    /\ proc[p].pc = "read_hash"
    /\ IF IsFile(PreludePath(DirPath(p)))
       THEN Upd(p, [proc[p] EXCEPT !.pc = "spawn", !.phase = "main"])
       ELSE Upd(p, Failed(proc[p], [kind |-> "panic", cause |-> [kind |-> "open"]]))
    /\ UNCHANGED <<call, now, ticks, platform, files, dirs, invocations>>

\* the child's status dropped: main returns Ok(()) whatever the child did
ExitCodeDropped(status) == 0
\* main, lines 371-375: the launcher's exit code from the child's status
ExitCode(status) == IF status.success THEN 0 ELSE IF status.code # -1 THEN status.code ELSE 1

\* the operating system runs a regular file that has an execute bit
CanExecute(path) == path \in DOMAIN files /\ IsExecMode(files[path].mode)

\* main, lines 356-375: Command::output() runs the child to its end, or
\* panics when the file cannot be executed
Spawn(p) ==
    /\ proc[p].pc = "spawn"
    /\ IF CanExecute(BinaryPath(DirPath(p)))
       THEN \E status \in ChildStatuses :
              Upd(p, [proc[p] EXCEPT !.pc = "done", !.resp = None, !.child = status, !.exit = ExitCode(status)])
       ELSE Upd(p, Failed(proc[p], [kind |-> "panic", cause |-> [kind |-> "exec"]]))
    /\ UNCHANGED <<call, now, ticks, platform, files, dirs, invocations>>

\* the process is killed: it stops where it is, and nothing is cleaned up
Kill(p) ==
    /\ Running(p)
    /\ Upd(p, [Idle EXCEPT !.pc = "killed", !.ver = proc[p].ver, !.inv = proc[p].inv])
    /\ UNCHANGED <<call, now, ticks, platform, files, dirs, invocations>>

\* time passes
Tick ==
    /\ ticks < MaxTicks
    /\ ticks' = ticks + 1
    /\ \E d \in ClockSteps : now' = now + d
    /\ UNCHANGED <<call, platform, files, dirs, invocations, proc>>

\* The cache at the start: empty, or holding an installation made by a build
\* without the permission step (lines 217-222 are unix only), whose final
\* file has the temporary file's mode.
ForeignCache ==
    [path \in {BinaryPath(<<"main">>), PreludePath(<<"main">>)} |->
        IF path = BinaryPath(<<"main">>) THEN File(Decoded("latestA"), TmpMode, 0)
        ELSE File(<<"h1">>, DefaultMode, 0)]

Init ==
    /\ now = 0
    /\ ticks = 0
    /\ platform \in Platforms
    /\ \/ files = <<>> /\ dirs = {}
       \/ files = ForeignCache /\ dirs = {Root, <<"main">>}
    /\ invocations = 0
    /\ proc = [p \in Procs |-> Idle]
    /\ call = None

Step(p) ==
    \/ Start(p) \/ GetReleases(p) \/ Fetch(p) \/ WriteReleases(p) \/ Resolve(p)
    \/ CreatePrelude(p) \/ WritePrelude(p) \/ CreateTmp(p) \/ Decode(p)
    \/ Chmod(p) \/ Rename(p) \/ MainCheck(p) \/ Verify(p) \/ ReadHash(p)
    \/ Spawn(p)

Next == (\E p \in Procs : Step(p) \/ Kill(p)) \/ Tick

Spec == Init /\ [][Next]_vars

(***************************************************************************)
(* Single calls.  The functions of main.rs that compute a result from      *)
(* their arguments alone are also run on their own, on every argument of   *)
(* a bounded set: `call` holds the arguments and, once the function has    *)
(* returned, its result; the cache and the invocations stay as they are    *)
(* before the first invocation.                                            *)
(***************************************************************************)
MaxReleases == 2        \* releases in a listing
MaxAssets == 2          \* assets of the expected name in one release

SeqsUpTo(S, n) == UNION {[1..k -> S] : k \in 0..n}

NoInvocation ==
    /\ now = 0 /\ ticks = 0 /\ platform = <<"x86_64", "linux">>
    /\ files = <<>> /\ dirs = {} /\ invocations = 0
    /\ proc = [p \in Procs |-> Idle]

\* A release of a listing: named after a version, tagged with its name or
\* with another tag, cut from a branch or from a commit, with up to MaxAssets
\* assets of the expected name, after an asset for another platform or not.
\* The url of an asset tells its place in the listing.
ListedNames == {"latest", "v1"}
Shapes ==
    {s \in [name : ListedNames, tagged : BOOLEAN, commitish : {"main", "c1"},
            other_first : BOOLEAN, copies : 0..MaxAssets] :
        ~s.tagged => s.commitish = "main"}
AssetNames(shape) ==
    (IF shape.other_first THEN <<MacAsset>> ELSE <<>>) \o [k \in 1..shape.copies |-> LinuxAsset]
Listing(shapes) ==
    [i \in DOMAIN shapes |->
        Release(shapes[i].name,
                IF shapes[i].tagged THEN shapes[i].name ELSE "release-" \o shapes[i].name,
                shapes[i].commitish,
                [j \in DOMAIN AssetNames(shapes[i]) |->
                    Asset(AssetNames(shapes[i])[j], "r" \o ToString(i) \o "a" \o ToString(j))])]
Listings(n) == {Listing(shapes) : shapes \in SeqsUpTo(Shapes, n)}

\* download_http, lines 165-167: dir_path = output_dir, artifact = None
ScanInit ==
    /\ NoInvocation
    /\ call \in [fn : {"download_http"}, version : ListedNames, releases : Listings(MaxReleases),
                 returned : {FALSE}, result : {[dir_path |-> Root, artifact |-> NoAsset]}]

\* download_http, lines 168-190: get_arch and the loop over the releases
CallDownloadHttp ==
    /\ call.fn = "download_http" /\ ~call.returned
    /\ call' = [call EXCEPT !.returned = TRUE,
                            !.result = Match(call.version, call.releases, Target.val)]
    /\ UNCHANGED <<now, ticks, platform, files, dirs, invocations, proc>>

ScanNext == CallDownloadHttp

SpecScan == ScanInit /\ [][ScanNext]_vars

MaxArgs == 3            \* command-line arguments after the launcher's name

\* the command line: the launcher's name, then the arguments
ArgWords == {"build", "--version", "buckle"}
CommandLines == {<<"buckle">> \o args : args \in SeqsUpTo(ArgWords, MaxArgs)}
\* the ways the child can end: with success, with a code, or by a signal
ExitStatuses ==
    ChildStatuses \cup {[spawned |-> TRUE, success |-> FALSE, code |-> c] : c \in {1, 255}}

\* main, lines 356-357: env::args_os() without its first element
ChildArgs(argv) == IF argv = <<>> THEN <<>> ELSE Tail(argv)

\* main, line 356: the binary has passed the checks; nothing is spawned yet
SpawnInit ==
    /\ NoInvocation
    /\ call \in [fn : {"main"}, argv : CommandLines, status : ExitStatuses,
                 returned : {FALSE}, child_args : {<<>>}, exit : {-1}]

\* main, lines 356-375: the child runs with the arguments and ends with
\* `status`; the launcher exits with the code made from it
CallSpawn ==
    /\ call.fn = "main" /\ ~call.returned
    /\ call' = [call EXCEPT !.returned = TRUE,
                            !.child_args = ChildArgs(call.argv),
                            !.exit = ExitCode(call.status)]
    /\ UNCHANGED <<now, ticks, platform, files, dirs, invocations, proc>>

SpawnNext == CallSpawn

SpecSpawn == SpawnInit /\ [][SpawnNext]_vars

\* values of env::consts::ARCH and env::consts::OS, and "darwin", which the
\* table also knows
Archs == {"x86_64", "aarch64", "x86", "arm", "mips", "riscv64", "powerpc64"}
OSes == {"linux", "macos", "darwin", "windows", "freebsd", "android", "ios", "netbsd"}

ArchInit ==
    /\ NoInvocation
    /\ call \in [fn : {"get_arch"}, arch : Archs, os : OSes,
                 returned : {FALSE}, result : {Err(NoErr)}]

\* get_arch, lines 146-161
CallGetArch ==
    /\ call.fn = "get_arch" /\ ~call.returned
    /\ call' = [call EXCEPT !.returned = TRUE, !.result = get_arch(call.arch, call.os)]
    /\ UNCHANGED <<now, ticks, platform, files, dirs, invocations, proc>>

ArchNext == CallGetArch

SpecArch == ArchInit /\ [][ArchNext]_vars

MaxDepth == 3           \* ancestors of the current directory, itself included
MaxCalls == 2           \* calls of get_buck2_project_root in one process

\* The ancestors of the current directory, nearest first (the directory
\* itself is the first), each with or without a .buckroot and a .buckconfig.
Ancestor == [buckroot : BOOLEAN, buckconfig : BOOLEAN]
Trees == UNION {[1..d -> Ancestor] : d \in 1..MaxDepth}
NoRoot == 0             \* Option::None; Some(ancestor) is the ancestor's place
Unset == -1             \* the OnceCell before get_or_init

\* the walk stopped at the first ancestor that has either marker
WalkFirstMarker(tree, i, current_root) ==
    LET S == {j \in i..Len(tree) : tree[j].buckroot \/ tree[j].buckconfig}
    IN IF S = {} THEN current_root ELSE CHOOSE j \in S : \A k \in S : j <= k

RECURSIVE Walk(_, _, _)
\* get_buck2_project_root, lines 63-79: for ancestor in path.ancestors()
Walk(tree, i, current_root) ==
    IF i > Len(tree) THEN current_root
    ELSE IF tree[i].buckroot THEN i
    ELSE Walk(tree, i + 1, IF tree[i].buckconfig THEN i ELSE current_root)

\* `seen` keeps the tree as it was when the cell was initialised
RootInit ==
    /\ NoInvocation
    /\ call \in [fn : {"get_buck2_project_root"}, tree : Trees, seen : {<<>>},
                 cell : {Unset}, calls : {0}, result : {NoRoot}]

\* get_buck2_project_root, lines 59-81: INSTANCE.get_or_init, then path.as_deref()
CallGetBuck2ProjectRoot ==
    /\ call.fn = "get_buck2_project_root" /\ call.calls < MaxCalls
    /\ LET init == call.cell = Unset
           cell == IF init THEN Walk(call.tree, 1, NoRoot) ELSE call.cell
       IN call' = [call EXCEPT !.cell = cell, !.result = cell, !.calls = @ + 1,
                               !.seen = IF init THEN call.tree ELSE @]
    /\ UNCHANGED <<now, ticks, platform, files, dirs, invocations, proc>>

\* a .buckroot or a .buckconfig is created or removed while the process runs
Touch ==
    /\ call.fn = "get_buck2_project_root"
    /\ \E i \in DOMAIN call.tree :
         \/ call' = [call EXCEPT !.tree[i].buckroot = ~@]
         \/ call' = [call EXCEPT !.tree[i].buckconfig = ~@]
    /\ UNCHANGED <<now, ticks, platform, files, dirs, invocations, proc>>

RootNext == CallGetBuck2ProjectRoot \/ Touch

SpecRoot == RootInit /\ [][RootNext]_vars

(***************************************************************************)
(* Properties.                                                             *)
(***************************************************************************)
\* p has just been returned Ok(dir_path) by download_http
HasReturned(p) == proc[p].pc \in {"main_check", "read_hash"}

\* C1: in every reachable state, whatever the interleaving of the invocations
\* and wherever they were killed, a file at a final path <install dir>/buck2
\* holds the complete decoded artifact of some asset: never a partial one.
C1_FinalNeverPartial ==
    \A path \in BinaryPaths(files) : IsComplete(files[path])

\* C1 witness: a final binary has been published by a rename while the
\* partial temporary file of a killed invocation lies in the same directory.
C1_Witness ==
    \E p, q \in Procs :
        /\ HasReturned(p) /\ BinaryPath(DirPath(p)) \in proc[p].wrote
        /\ proc[q].pc = "killed"
        /\ IsFile(TmpPath(DirPath(p), proc[q].inv))
        /\ ~IsComplete(files[TmpPath(DirPath(p), proc[q].inv)])

\* the step is one of invocation p, and p was not killed in it
Acts(p) == proc'[p] # proc[p] /\ proc'[p].pc # "killed"
SameFinals == /\ BinaryPaths(files') = BinaryPaths(files)
              /\ \A path \in BinaryPaths(files) : files'[path] = files[path]
LeftoverIn(dir_path) ==
    \E q \in Procs : proc[q].pc = "killed" /\ IsFile(TmpPath(dir_path, proc[q].inv))

\* C2: an invocation killed after it created its temporary file and before
\* the rename leaves the temporary file behind and every final path as it
\* was (absent stays absent); no step it took before the rename touched a
\* final path; the next presence check that finds the final path absent is
\* not satisfied by the leftover temporary file and goes on to install; and
\* the installation's rename leaves the complete, executable artifact there.
C2_KilledBeforeRename ==
    [][\A p \in Procs :
        LET r == proc[p]
            final == BinaryPath(DirPath(p))
        IN /\ (r.pc \in {"decode", "chmod", "rename"} /\ proc'[p].pc = "killed")
                => /\ TmpPath(DirPath(p), r.inv) \in DOMAIN files'
                   /\ SameFinals
           /\ (r.pc \in {"create_tmp", "decode", "chmod"} /\ Acts(p)) => SameFinals
           /\ (r.pc = "resolve" /\ Target.ok /\ Resolved(r).artifact # NoAsset
                 /\ ~Exists(final) /\ LeftoverIn(DirPath(p)) /\ Acts(p))
                => proc'[p].pc = "create_prelude"
           /\ (r.pc = "rename" /\ Acts(p))
                => /\ proc'[p].pc \in {"main_check", "read_hash"}
                   /\ final \in DOMAIN files'
                   /\ files'[final].data = Decoded(Resolved(r).artifact.browser_download_url)
                   /\ IsExecMode(files'[final].mode)
      ]_vars

\* C2 witness: the partial temporary file of a killed invocation is still in
\* the install directory, and a later invocation for the same version, whose
\* presence check found the final path absent, has published the artifact.
C2_Witness ==
    \E p, q \in Procs :
        /\ proc[q].pc = "killed" /\ proc[q].ver = proc[p].ver /\ proc[q].inv < proc[p].inv
        /\ HasReturned(p) /\ ~proc[p].hit /\ proc[p].installed
        /\ IsFile(TmpPath(DirPath(p), proc[q].inv))
        /\ IsComplete(files[BinaryPath(DirPath(p))])

\* the call of download_http in p has resolved an asset and gone past the presence check
PastCheck(p) ==
    /\ proc[p].rels # None /\ Target.ok /\ Resolved(proc[p]).artifact # NoAsset
    /\ proc[p].pc \notin {"idle", "killed", "resolve"}
\* the call began when the final path it resolves to was already there
IsSecondCall(p) == PastCheck(p) /\ BinaryPath(DirPath(p)) \in proc[p].had

\* C3, as claimed: a call of download_http made when an earlier call has
\* installed the binary finds it present, requests neither the prelude_hash
\* nor the artifact and changes no file under the install directory.  It
\* fails when the matched release's tag_name differs from the version: the
\* install directory is then the cache directory itself, where the call
\* rewrites releases.json once the snapshot is stale.
C3_Original ==
    \A p \in Procs :
        IsSecondCall(p) =>
            /\ proc[p].hit
            /\ proc[p].fetched \cap {"prelude_hash", "artifact"} = {}
            /\ \A path \in proc[p].wrote : ~IsPrefix(DirPath(p), path)

RereadsSnapshot(p) ==
    /\ files' = files
    /\ proc'[p].fetched = proc[p].fetched
    /\ proc'[p].pc # "fetch"
    /\ ParseReleases(files[ReleasesJson].data).ok
         => proc'[p].rels = ParseReleases(files[ReleasesJson].data).val

\* C4, as claimed: a get_releases call at a time t <= T+3600, where T is the
\* modification time of releases.json, reuses the snapshot without a request.
C4_Original ==
    [][\A p \in Procs :
        (/\ proc[p].pc = "get_releases" /\ Acts(p)
         /\ IsFile(ReleasesJson)
         /\ files[ReleasesJson].mtime <= now /\ now <= files[ReleasesJson].mtime + TTL)
        => RereadsSnapshot(p)
      ]_vars

\* C4, amended: a get_releases call at a time t with |t - T| < 3600 reads the
\* snapshot back without any request and without touching the cache, and a
\* call at t >= T+3600 (t = T+3600 included), or with no snapshot, goes to
\* the network.
C4_Staleness ==
    [][\A p \in Procs :
        (proc[p].pc = "get_releases" /\ Acts(p))
        => IF /\ IsFile(ReleasesJson)
              /\ now - files[ReleasesJson].mtime < TTL
              /\ files[ReleasesJson].mtime - now < TTL
           THEN RereadsSnapshot(p)
           ELSE proc'[p].pc = "fetch"
      ]_vars

\* C4 witness: a call goes to the network although releases.json is there,
\* written exactly 3600 seconds earlier.
C4_Witness ==
    \E p \in Procs :
        /\ proc[p].pc = "fetch" /\ proc[p].inv > 1
        /\ IsFile(ReleasesJson)
        /\ now = files[ReleasesJson].mtime + TTL

\* no release named `version` lists an asset with the expected artifact name
NoMatch(version, releases) ==
    ~\E i \in DOMAIN releases :
        /\ releases[i].name = version
        /\ \E j \in DOMAIN releases[i].assets :
              releases[i].assets[j].name = ArtifactName(Target.val)
\* the error download_http returned, seen through the unwrap of get_expected_prelude_hash
Cause(r) == IF r.err.kind = "panic" THEN r.err.cause ELSE r.err

\* C5: whenever the release list holds no release named exactly the
\* requested version with an asset of the expected name, download_http
\* selects no asset and fails with the error that names the version and the
\* releases page; that call has requested nothing but the release list, has
\* created no directory and no file but releases.json, and the invocation
\* spawns no child.
C5_NoMatch ==
    \A p \in Procs :
        LET r == proc[p] IN
        (/\ r.rels # None /\ Target.ok
         /\ r.pc \notin {"idle", "killed", "resolve"}
         /\ NoMatch(r.ver, ReleasesOf(r.rels)))
        => /\ r.pc = "failed"
           /\ Resolved(r).artifact = NoAsset
           /\ Cause(r) = [kind |-> "not available", version |-> r.ver,
                          url |-> "https://github.com/facebook/buck2/tags"]
           /\ r.fetched \subseteq {"releases"}
           /\ r.wrote \subseteq {ReleasesJson}
           /\ ~r.child.spawned

\* C5 witness: an invocation for v1 has failed on a list whose release v1
\* lacks the linux asset, while the list holds other releases with one.
C5_Witness ==
    \E p \in Procs :
        /\ proc[p].pc = "failed" /\ proc[p].err.kind = "not available"
        /\ proc[p].ver = "v1" /\ proc[p].rels = "B"
        /\ proc[p].fetched = {"releases"}

\* C6, as claimed: when the release-list request fails, releases.json is
\* left as it was, no release list is used, and the invocation ends with
\* nothing installed and no child spawned.
C6_Original ==
    [][\A p \in Procs :
        (proc[p].pc = "fetch" /\ proc'[p].pc = "failed")
        => /\ files' = files
           /\ proc'[p].rels = None
           /\ Cause(proc'[p]).kind = "network"
           /\ ~proc'[p].installed
           /\ ~proc'[p].child.spawned
      ]_vars

\* C7, as claimed: when get_releases returns after receiving a response,
\* with a release list or with a parse error, releases.json holds exactly
\* the response's bytes and carries the current time as modification time.
C7_Original ==
    [][\A p \in Procs :
        (proc[p].pc = "write_releases" /\ Acts(p))
        => /\ files'[ReleasesJson].data = BytesOf(proc[p].resp)
           /\ files'[ReleasesJson].mtime = now
      ]_vars

\* p renames its temporary file onto the final path in this step
Renames(p) == proc[p].pc = "rename" /\ Acts(p)

\* C8, as claimed: once a final path holds a file, no step of any invocation
\* replaces, truncates or removes it: the path is written exactly once.
C8_Original ==
    [][\A path \in BinaryPaths(files) :
        /\ path \in DOMAIN files'
        /\ files'[path] = files[path]
        /\ \A p \in Procs : ~(Renames(p) /\ BinaryPath(DirPath(p)) = path)
      ]_vars

\* C8, amended: the only step that ever changes a final path is the rename
\* onto it of a completely written temporary file of the same directory,
\* made by an invocation whose presence check found the path absent; once
\* present a final path is never removed, truncated or left partial; but an
\* invocation that overlaps the first installer and made its presence check
\* before the publication renames its own complete file over the published
\* one, so the path can be written more than once.
C8_OnlyRenames ==
    [][/\ \A path \in BinaryPaths(files') :
            (path \notin DOMAIN files \/ files'[path] # files[path])
            => \E p \in Procs :
                 /\ Renames(p) /\ path = BinaryPath(DirPath(p))
                 /\ ~proc[p].hit
                 /\ \E tmp \in DOMAIN files \ DOMAIN files' :
                       /\ SubSeq(tmp, 1, Len(tmp) - 1) = SubSeq(path, 1, Len(path) - 1)
                       /\ IsComplete(files[tmp])
                       /\ files'[path] = files[tmp]
       /\ \A path \in BinaryPaths(files) :
            path \in DOMAIN files' /\ IsComplete(files'[path])
       /\ \A p \in Procs :
            (IsSecondCall(p) /\ proc'[p] # proc[p]) => SameFinals
      ]_vars

\* C8 witness: two overlapping invocations have both renamed onto the same
\* final path, the second over the file the first had published.
C8_Witness ==
    \E p, q \in Procs :
        /\ p # q /\ proc[p].installed /\ proc[q].installed
        /\ proc[p].rels # None /\ proc[q].rels # None
        /\ DirPath(p) = DirPath(q)
        /\ IsComplete(files[BinaryPath(DirPath(p))])

Excused == {"network", "decode", "env", "parse response", "not available",
            "Unsupported Arch/OS", "Unsupported Architecture", "corrupted", "expect"}
ErrKind(r) == IF Cause(r).kind = "parse" THEN "parse " \o Cause(r).of ELSE Cause(r).kind
\* p is under way or has ended, was not killed, and met no failed request,
\* no malformed or undecodable response and no missing asset
Unhindered(p) == proc[p].pc \notin {"idle", "killed"} /\ ErrKind(proc[p]) \notin Excused

\* C9, as claimed: of two invocations for the same version on a cache where
\* the final artifact was absent, neither of which was killed or met a
\* failing I/O step, none fails, and once both have been returned their
\* install directory it is the same one and holds the complete artifact.
C9_Original ==
    \A p, q \in Procs :
        (/\ p # q /\ proc[p].ver = proc[q].ver
         /\ Unhindered(p) /\ Unhindered(q)
         /\ proc[p].had = {} /\ proc[q].had = {})
        => /\ proc[p].pc # "failed"
           /\ (proc[p].pc = "done" /\ proc[q].pc = "done")
                => /\ DirPath(p) = DirPath(q)
                   /\ IsFile(BinaryPath(DirPath(p)))
                   /\ IsComplete(files[BinaryPath(DirPath(p))])

\* C10: a child is spawned, or about to be, only in an invocation whose
\* resolution returned a directory, ran into no error, and whose final path
\* is at that moment a regular file with an execute bit; an invocation that
\* ended with an error has spawned no child.
C10_SpawnOnlyExecutable ==
    \A p \in Procs :
        LET r == proc[p] IN
        /\ (r.pc = "spawn" \/ r.child.spawned)
             => /\ r.rels # None /\ r.err = NoErr
                /\ Resolved(r).artifact # NoAsset
                /\ BinaryPath(DirPath(p)) \in DOMAIN files
                /\ IsExecMode(files[BinaryPath(DirPath(p))].mode)
        /\ r.child.spawned => r.pc = "done"
        /\ r.pc = "failed" => r.err # NoErr /\ ~r.child.spawned /\ r.exit # 0

\* C10 witness: one invocation has installed the binary and spawned it, and
\* another has ended with the corrupted-cache error on a final file that
\* has no execute bit, without spawning.
C10_Witness ==
    \E p, q \in Procs :
        /\ proc[p].pc = "done" /\ proc[p].child.spawned /\ proc[p].installed
        /\ proc[q].pc = "failed" /\ proc[q].err.kind = "corrupted"
        /\ ~proc[q].child.spawned

\* C11, as claimed: once the final binary has passed the presence and
\* executable checks and verify_prelude has found a prelude submodule with a
\* checked-out id, so that it goes on to compare the hashes, the invocation
\* never fails: whatever the comparison gives, it goes on to spawn.  It
\* fails because get_expected_prelude_hash unwraps a second get_buck2_dir.
C11_Original ==
    \A p \in Procs : proc[p].phase = "verify" => proc[p].pc # "failed"

\* the releases of the call that are named after the requested version, and
\* those among them that carry an asset with the expected artifact name
Named == {i \in DOMAIN call.releases : call.releases[i].name = call.version}
Carries(i) ==
    {j \in DOMAIN call.releases[i].assets :
        call.releases[i].assets[j].name = ArtifactName(Target.val)}
Carrying == {i \in Named : Carries(i) # {}}
Least(S) == CHOOSE j \in S : \A k \in S : j <= k
Greatest(S) == CHOOSE j \in S : \A k \in S : k <= j

\* C12, as claimed: the asset download_http selects is the first asset with
\* the expected name of the last release in list order that is named after
\* the requested version.
C12_Original ==
    (call.returned /\ call.result.artifact # NoAsset) =>
        /\ Carries(Greatest(Named)) # {}
        /\ call.result.artifact =
             call.releases[Greatest(Named)].assets[Least(Carries(Greatest(Named)))]

\* C12, amended: download_http selects the first asset with the expected
\* name of the last release in list order that is named after the requested
\* version and carries such an asset: a later release of that name without
\* such an asset does not displace it; it selects none when no release of
\* that name carries one.
C12_LastCarrying ==
    call.returned =>
        call.result.artifact =
            IF Carrying = {} THEN NoAsset
            ELSE call.releases[Greatest(Carrying)].assets[Least(Carries(Greatest(Carrying)))]

\* C12 witness: two releases named after the version carry the expected
\* asset, the second of them twice, and the call has returned the first of
\* the second release's two.
C12_Witness ==
    /\ call.returned
    /\ Cardinality(Carrying) >= 2
    /\ Cardinality(Carries(Greatest(Carrying))) >= 2
    /\ call.result.artifact.browser_download_url = "r2a1"

\* C13, as claimed: the install directory download_http resolves is the
\* cache directory followed by one component, the target_commitish of the
\* matched release when the requested version is "latest" and the name of
\* the selected asset when it is a concrete version.  It fails because the
\* code pushes target_commitish for every release named and tagged with the
\* version, whatever the version, and nothing for the others.
C13_Original ==
    (call.returned /\ call.result.artifact # NoAsset) =>
        call.result.dir_path =
            IF call.version = "latest"
            THEN Push(Root, call.releases[Greatest(Carrying)].target_commitish)
            ELSE Push(Root, call.result.artifact.name)

\* C14: the child receives the command line without its first element,
\* every argument in its place and unchanged; the launcher exits with 0
\* exactly when the child ended with success, and otherwise with the child's
\* exit code, or with 1 when the child has none.
C14_ArgsAndStatus ==
    call.returned =>
        /\ Len(call.child_args) = Len(call.argv) - 1
        /\ \A i \in 1..Len(call.child_args) : call.child_args[i] = call.argv[i + 1]
        /\ call.exit = 0 <=> call.status.success
        /\ ~call.status.success =>
              call.exit = IF call.status.code = -1 THEN 1 ELSE call.status.code

\* C14 witness: a child started with three arguments, one of them the
\* launcher's own name, was ended by a signal, and the launcher exited with 1.
C14_Witness ==
    /\ call.returned
    /\ Len(call.child_args) = 3 /\ call.child_args[2] = "buckle"
    /\ ~call.status.success /\ call.status.code = -1
    /\ call.exit = 1

\* the supported pairs and their platform strings, as the claim lists them
PlatformTable ==
    <<"x86_64", "linux">> :> "x86_64-unknown-linux-gnu" @@
    <<"x86_64", "darwin">> :> "x86_64-apple-darwin" @@
    <<"x86_64", "macos">> :> "x86_64-apple-darwin" @@
    <<"x86_64", "windows">> :> "x86_64-pc-windows-msvc" @@
    <<"aarch64", "linux">> :> "aarch64-unknown-linux-gnu" @@
    <<"aarch64", "darwin">> :> "aarch64-apple-darwin" @@
    <<"aarch64", "macos">> :> "aarch64-apple-darwin"
Supported == <<call.arch, call.os>> \in DOMAIN PlatformTable
InTable ==
    /\ call.result = Ok(PlatformTable[<<call.arch, call.os>>])
    /\ ArtifactName(call.result.val) =
          "buck2-" \o PlatformTable[<<call.arch, call.os>>] \o ".zst"
    /\ (call.arch = "x86_64" /\ call.os = "linux") =>
          ArtifactName(call.result.val) = "buck2-x86_64-unknown-linux-gnu.zst"

\* C15, as claimed: get_arch gives each supported pair its platform string,
\* and fails on every other pair with an error that names both the
\* architecture and the OS.
C15_Original ==
    call.returned =>
        IF Supported THEN InTable
        ELSE /\ ~call.result.ok
             /\ call.result.err.kind \in {"Unsupported Arch/OS", "Unsupported Architecture"}
             /\ call.result.err.arch = call.arch
             /\ call.result.err.os = call.os

\* C15, amended: get_arch gives each supported pair its platform string; on
\* an unsupported OS of x86_64 or aarch64 it fails with an "Unsupported
\* Arch/OS" error that names the architecture and the OS, and on any other
\* architecture with an "Unsupported Architecture" error that names the
\* architecture alone, whatever the OS.
C15_Table ==
    call.returned =>
        IF Supported THEN InTable
        ELSE /\ ~call.result.ok
             /\ call.result.err.arch = call.arch
             /\ IF call.arch \in {"x86_64", "aarch64"}
                THEN /\ call.result.err.kind = "Unsupported Arch/OS"
                     /\ call.result.err.os = call.os
                ELSE /\ call.result.err.kind = "Unsupported Architecture"
                     /\ call.result.err.os = None

\* C15 witness: get_arch has failed on mips/linux with an error that does
\* not name the OS.
C15_Witness ==
    /\ call.returned /\ call.arch = "mips" /\ call.os = "linux"
    /\ ~call.result.ok /\ call.result.err.os = None

\* C16, as claimed: whenever a final binary is present, the prelude_hash
\* file of its directory is present and holds a whole hash.  It fails
\* because an overlapping installer, past its presence check, truncates
\* prelude_hash in place after the binary has been published.
C16_Original ==
    \A path \in BinaryPaths(files) :
        LET prelude_path == PreludePath(SubSeq(path, 1, Len(path) - 1))
        IN /\ prelude_path \in DOMAIN files
           /\ \E h \in Hashes : files[prelude_path].data = <<h>>

\* C17, as claimed, its last part: an invocation that was not killed, met
\* no failing I/O step and found a matching asset does not fail: once ended
\* it has spawned the child, and the final artifact is present and
\* executable.  It fails because a fresh releases.json that an overlapping
\* invocation has truncated and not yet rewritten does not parse.
C17_Original ==
    \A p \in Procs :
        (Unhindered(p) /\ proc[p].pc \in {"done", "failed"})
        => /\ proc[p].pc = "done"
           /\ proc[p].child.spawned
           /\ is_exec(BinaryPath(DirPath(p)))

\* the places of the ancestors of `tree` that hold each marker
WithRoot(tree) == {i \in DOMAIN tree : tree[i].buckroot}
WithConfig(tree) == {i \in DOMAIN tree : tree[i].buckconfig}

\* C18: every call of get_buck2_project_root returns what the first call
\* found in the tree as it then was: the nearest ancestor with a .buckroot
\* when there is one, whatever .buckconfig lies above or below it; otherwise
\* the farthest ancestor with a .buckconfig; otherwise none.  Later changes
\* of the tree do not change the result.
C18_ProjectRoot ==
    call.calls >= 1 =>
        /\ call.cell = call.result
        /\ call.result =
             IF WithRoot(call.seen) # {} THEN Least(WithRoot(call.seen))
             ELSE IF WithConfig(call.seen) # {} THEN Greatest(WithConfig(call.seen))
             ELSE NoRoot

\* C18 witness: the second call has returned the second ancestor, which held
\* the nearest .buckroot at the first call, with a .buckconfig below and
\* above it, although the tree has changed since and a walk would now end
\* elsewhere.
C18_Witness ==
    /\ call.calls = 2 /\ call.result = 2
    /\ call.seen[1].buckconfig /\ ~call.seen[1].buckroot
    /\ Len(call.seen) = 3 /\ call.seen[3].buckconfig
    /\ call.tree # call.seen
    /\ Walk(call.tree, 1, NoRoot) # call.result

\* C19, as claimed: a get_releases call that finds releases.json fresh reads
\* the whole body of one response.  It fails because the file is truncated
\* and filled in place: between the two, or for the hour that follows a
\* kill between the two, a fresh releases.json is empty or mixed.
C19_Original ==
    [][\A p \in Procs :
        (/\ proc[p].pc = "get_releases" /\ Acts(p)
         /\ Exists(ReleasesJson) /\ IsFresh(files[ReleasesJson].mtime, now))
        => \E body \in Bodies : files[ReleasesJson].data = BytesOf(body)
      ]_vars

\* the urls of the assets with the expected name that some listing holds in
\* a release named `version`
ReleasedFor(version) ==
    {url \in Urls :
        \E body \in {"A", "B"} : \E i \in DOMAIN ReleasesOf(body) :
            /\ ReleasesOf(body)[i].name = version
            /\ \E j \in DOMAIN ReleasesOf(body)[i].assets :
                  /\ ReleasesOf(body)[i].assets[j].name = ArtifactName(Target.val)
                  /\ ReleasesOf(body)[i].assets[j].browser_download_url = url}

\* C20, as claimed: the binary that an invocation for version V is about to
\* run, having passed the presence and executable checks, was installed
\* from an asset of a release named V.  It fails because the install
\* directory is named after target_commitish, or is the cache directory
\* itself, so that two versions share one final path.
C20_Original ==
    \A p \in Procs :
        (proc[p].pc = "verify" /\ proc[p].phase = "main")
        => \E url \in ReleasedFor(proc[p].ver) :
              files[BinaryPath(DirPath(p))].data = Decoded(url)

====
